---- MODULE Spec2Model ----
(***************************************************************************)
(* Model of congestion-sim/sim_core.py: the Flow congestion-control state  *)
(* machines, the Switch byte queue and the Simulator stepping loop.        *)
(*                                                                         *)
(* Number representation.  The source computes in floating point; the      *)
(* model computes in fixed point with integers:                            *)
(*   - every *_ms quantity is held in microseconds (0.01 ms = 10,          *)
(*     0.1 ms = 100);                                                      *)
(*   - cwnd is held in 1/CwndScale packets (10.0 packets = 10*CwndScale);  *)
(*   - alpha is held in 1/AlphaScale;                                      *)
(*   - probabilities are held in parts per million, util in 1/UtilScale;   *)
(*   - byte counts are integers, divisions round down.                     *)
(* float('inf') and None are the sentinels Inf and None.                   *)
(***************************************************************************)
EXTENDS Integers, Sequences, FiniteSets, TLC

(***************************************************************************)
(* Program constants                                                       *)
(***************************************************************************)
PKT_BYTES == 1500
\* 10 Gbps = 1.25e6 bytes per ms = 1250 bytes per microsecond
LINK_RATE_BYTES_PER_MS == 1250
InitCwndPkts == 10
MinCwndPkts == 2
\* g = 1/16
GDen == 16
\* schedule_short_flows starts every call at fid = 10000
FirstShortFid == 10000
Inf == -1
None == -2

(***************************************************************************)
(* Fixed-point resolutions                                                 *)
(***************************************************************************)
CwndScale == 100
AlphaScale == 1024
UtilScale == 1000

(***************************************************************************)
(* Bounds of the model                                                     *)
(***************************************************************************)
\* the longest run, in steps
MaxSteps == 3
\* the most Flow objects one simulator is given
MaxFlows == 3

\* dc_experiment.run_single calls schedule_short_flows once per CC variant
\* of ("reno", "dctcp"); space_experiment.run_single calls it once
MaxCalls == 2

(***************************************************************************)
(* Input sets                                                              *)
(***************************************************************************)
CCs == {"reno", "dctcp", "spacecc"}
DtSet == {10}
\* not a multiple of dt_ms: the last step starts before duration_ms - dt_ms
DurationSet == {10 * MaxSteps + 5}
BufferPktsSet == {20}
EcnThreshPktsSet == {5}
RttSet == {10}
LongSizeSet == {Inf}
ShortSizeSet == {6000, 20000}
\* values rng.exponential(1000.0 / lam_per_sec) can return
GapSet == {8, 60}
\* <<outage_prob, rtt_jitter_std_ms>>: the simulator's defaults, and a lossy
\* link as space_experiment.run_single sets it
LinkSet == {<<0, 0>>, <<50000, 20>>}
OutageDurationSet == {15}
\* values rng.random() can return, in parts per million of [0, 1)
RandomSet == {0, 999999}
\* values rng.normal(0, std) can return
JitterSet == {-20, 30}

Max(a, b) == IF a >= b THEN a ELSE b
Min(a, b) == IF a <= b THEN a ELSE b

VARIABLES
    \* Simulator configuration and state
    dt_ms, duration_ms, flows, metrics, fct_records, short_flow_queue,
    time_ms, outage_active, outage_prob, outage_duration_ms, outage_end_ms,
    rtt_jitter_std_ms,
    \* Switch
    switch,
    \* every Flow object ever constructed, in construction order; flows and
    \* short_flow_queue hold indices into it
    heap,
    \* control: position in the driver / run() / _step(), loop counters
    pc, steps_left, idx, calls,
    \* locals of _step
    t, in_outage, ecn_frac, loss_occurred, served, queue_ms

vars == <<dt_ms, duration_ms, flows, metrics, fct_records, short_flow_queue,
          time_ms, outage_active, outage_prob, outage_duration_ms,
          outage_end_ms, rtt_jitter_std_ms, switch, heap, pc, steps_left, idx,
          calls, t, in_outage, ecn_frac, loss_occurred, served, queue_ms>>

config == <<dt_ms, duration_ms, outage_prob, outage_duration_ms,
            rtt_jitter_std_ms>>
locals == <<t, in_outage, ecn_frac, loss_occurred, served, queue_ms>>

(***************************************************************************)
(* Flow                                                                    *)
(***************************************************************************)
NewFlow(fid, cc, rtt_base_ms, size_bytes) ==
    [fid |-> fid, cc |-> cc, cwnd |-> InitCwndPkts * CwndScale,
     rtt_base_ms |-> rtt_base_ms, size_bytes |-> size_bytes, sent_bytes |-> 0,
     alpha |-> 0, rtt_smooth |-> 0, finished |-> FALSE,
     start_time_ms |-> None, finish_time_ms |-> None]

\* reno halving without the floor of 2
reno_update_nofloor(f, ecn, loss) ==
    IF loss \/ ecn > 0
    THEN [f EXCEPT !.cwnd = f.cwnd \div 2]
    ELSE [f EXCEPT !.cwnd = f.cwnd + f.cwnd \div 10]

reno_update(f, ecn, loss) ==
    IF loss \/ ecn > 0
    THEN [f EXCEPT !.cwnd = Max(f.cwnd \div 2, MinCwndPkts * CwndScale)]
    ELSE [f EXCEPT !.cwnd = f.cwnd + f.cwnd \div 10]

dctcp_update(f, ecn) ==
    LET a == ((GDen - 1) * f.alpha + ecn * AlphaScale) \div GDen
    IN  IF ecn > 0
        THEN [f EXCEPT !.alpha = a,
                       !.cwnd = Max((f.cwnd * (2 * AlphaScale - a))
                                       \div (2 * AlphaScale),
                                    MinCwndPkts * CwndScale)]
        ELSE [f EXCEPT !.alpha = a, !.cwnd = f.cwnd + f.cwnd \div 10]

spacecc_update(f, rtt_ms, q_ms, ecn, loss) ==
    LET s == IF f.rtt_smooth = 0 THEN rtt_ms
             ELSE (9 * f.rtt_smooth + rtt_ms) \div 10
        \* rtt_ratio > 1.25 with rtt_ratio = s / max(rtt_base_ms, 0.01)
        congested == s * 100 > 125 * Max(f.rtt_base_ms, 10)
    IN  IF congested
        THEN [f EXCEPT !.rtt_smooth = s,
                       !.cwnd = Max(f.cwnd \div 2, MinCwndPkts * CwndScale)]
        ELSE [f EXCEPT !.rtt_smooth = s,
                       !.cwnd = f.cwnd + (f.cwnd * 100)
                                            \div (2 * Max(rtt_ms, 100))]

on_ack(f, rtt_ms, q_ms, ecn, loss) ==
    IF f.cc = "reno" THEN reno_update(f, ecn, loss)
    ELSE IF f.cc = "dctcp" THEN dctcp_update(f, ecn)
    ELSE IF f.cc = "spacecc" THEN spacecc_update(f, rtt_ms, q_ms, ecn, loss)
    ELSE f

\* in 1/CwndScale bytes per microsecond
rate_bytes_per_ms(f) == (f.cwnd * PKT_BYTES) \div Max(f.rtt_base_ms, 10)

\* send_bytes = flow.rate_bytes_per_ms * self.dt_ms, in bytes
send_bytes(f, dt) == (rate_bytes_per_ms(f) * dt) \div CwndScale

(***************************************************************************)
(* Switch                                                                  *)
(***************************************************************************)
NewSwitch(buffer_pkts, ecn_thresh_pkts) ==
    [buffer_bytes |-> buffer_pkts * PKT_BYTES,
     ecn_thresh_bytes |-> ecn_thresh_pkts * PKT_BYTES,
     queue_bytes |-> 0, total_served_bytes |-> 0]

\* enqueue that admits without testing the capacity
enqueue_unchecked(sw, bytes_in) ==
    [switch |-> [sw EXCEPT !.queue_bytes = sw.queue_bytes + bytes_in],
     ok |-> TRUE]

\* enqueue that admits the part of the volume that fits
enqueue_partial(sw, bytes_in) ==
    IF sw.queue_bytes + bytes_in > sw.buffer_bytes
    THEN [switch |-> [sw EXCEPT !.queue_bytes = sw.buffer_bytes],
          ok |-> FALSE]
    ELSE [switch |-> [sw EXCEPT !.queue_bytes = sw.queue_bytes + bytes_in],
          ok |-> TRUE]

\* the switch after the call and the value returned
enqueue(sw, bytes_in) ==
    IF sw.queue_bytes + bytes_in > sw.buffer_bytes
    THEN [switch |-> sw, ok |-> FALSE]
    ELSE [switch |-> [sw EXCEPT !.queue_bytes = sw.queue_bytes + bytes_in],
          ok |-> TRUE]

\* the switch after the call and the value returned
\* drain that does not add to the served total
dequeue_nototal(sw, dt) ==
    LET srv == Min(sw.queue_bytes, LINK_RATE_BYTES_PER_MS * dt)
    IN  [switch |-> [sw EXCEPT !.queue_bytes = sw.queue_bytes - srv],
         served |-> srv]

\* drain that always serves a full step of link capacity
dequeue_full(sw, dt) ==
    LET srv == LINK_RATE_BYTES_PER_MS * dt
    IN  [switch |-> [sw EXCEPT !.queue_bytes = sw.queue_bytes - srv,
                               !.total_served_bytes =
                                   sw.total_served_bytes + srv],
         served |-> srv]

dequeue(sw, dt) ==
    LET can_serve == LINK_RATE_BYTES_PER_MS * dt
        srv == Min(sw.queue_bytes, can_serve)
    IN  [switch |-> [sw EXCEPT !.queue_bytes = sw.queue_bytes - srv,
                               !.total_served_bytes =
                                   sw.total_served_bytes + srv],
         served |-> srv]

queue_delay_ms(sw) ==
    IF LINK_RATE_BYTES_PER_MS # 0
    THEN sw.queue_bytes \div LINK_RATE_BYTES_PER_MS ELSE 0

\* a switch that never marks
ecn_fraction_never(sw) == 0

ecn_fraction(sw) == IF sw.queue_bytes > sw.ecn_thresh_bytes THEN 1 ELSE 0

(***************************************************************************)
(* Simulator                                                               *)
(***************************************************************************)
Init ==
    /\ dt_ms \in DtSet
    /\ duration_ms \in DurationSet
    /\ switch \in {NewSwitch(b, e) : b \in BufferPktsSet,
                                     e \in EcnThreshPktsSet}
    /\ \E l \in LinkSet : outage_prob = l[1] /\ rtt_jitter_std_ms = l[2]
    /\ outage_duration_ms \in OutageDurationSet
    /\ flows = <<>> /\ metrics = <<>> /\ fct_records = <<>>
    /\ short_flow_queue = <<>> /\ heap = <<>>
    /\ time_ms = 0
    /\ outage_active = FALSE
    /\ outage_end_ms = -1
    /\ pc = "setup" /\ steps_left = 0 /\ idx = 0 /\ calls = 0
    /\ t = 0 /\ in_outage = FALSE /\ ecn_frac = 0 /\ loss_occurred = FALSE
    /\ served = 0 /\ queue_ms = 0

\* add_flow(Flow(fid, cc, rtt_base_ms)), fid counted up by the driver
AddFlow ==
    /\ pc = "setup"
    /\ calls = 0
    /\ Len(heap) < MaxFlows
    /\ \E cc \in CCs, rtt \in RttSet, size \in LongSizeSet :
          /\ heap' = Append(heap,
                 [NewFlow(Len(heap), cc, rtt, size)
                      EXCEPT !.start_time_ms = time_ms])
          /\ flows' = Append(flows, Len(heap) + 1)
    /\ UNCHANGED <<config, metrics, fct_records, short_flow_queue, time_ms,
                   outage_active, outage_end_ms, switch, pc, steps_left, idx,
                   calls, locals>>


\* the arrival times schedule_short_flows generates from the gaps it draws:
\* t += gap_ms; the flow is created if t < duration_ms
RECURSIVE Arrivals(_, _, _)
Arrivals(t0, gaps, dur) ==
    IF gaps = <<>> \/ ~(t0 < dur) THEN <<>>
    ELSE LET t1 == t0 + Head(gaps)
         IN  IF t1 < dur THEN <<t1>> \o Arrivals(t1, Tail(gaps), dur)
             ELSE Arrivals(t1, Tail(gaps), dur)

RECURSIVE SumSeq(_)
SumSeq(s) == IF s = <<>> THEN 0 ELSE Head(s) + SumSeq(Tail(s))

\* the gap sequences the loop "while t < duration_ms" consumes whole: it
\* draws as long as the running sum is below duration_ms
DrawnGaps(dur) ==
    {g \in UNION {[1..n -> GapSet] : n \in 1..(MaxFlows + 1)} :
        /\ SumSeq(g) >= dur
        /\ SumSeq(SubSeq(g, 1, Len(g) - 1)) < dur}

\* list.sort(key=start_time_ms): stable insertion of o into a sorted list
RECURSIVE InsertSorted(_, _, _)
InsertSorted(q, o, h) ==
    IF q = <<>> THEN <<o>>
    ELSE IF h[o].start_time_ms < h[Head(q)].start_time_ms THEN <<o>> \o q
    ELSE <<Head(q)>> \o InsertSorted(Tail(q), o, h)

\* the pending queue left in append order
SortByStart_none(q, h) == q

RECURSIVE SortByStart(_, _)
SortByStart(q, h) ==
    IF q = <<>> THEN <<>>
    ELSE InsertSorted(SortByStart(SubSeq(q, 1, Len(q) - 1), h), q[Len(q)], h)

\* the flows one call of schedule_short_flows constructs, in generation order
ShortFlows(arr, cc, rtt, size) ==
    [i \in 1..Len(arr) |->
        [NewFlow(FirstShortFid + i - 1, cc, rtt, size)
             EXCEPT !.start_time_ms = arr[i]]]

schedule_short_flows ==
    /\ pc = "setup"
    /\ calls < MaxCalls
    /\ \E cc \in CCs, rtt \in RttSet, size \in ShortSizeSet,
          gaps \in DrawnGaps(duration_ms) :
          LET new == ShortFlows(Arrivals(0, gaps, duration_ms), cc, rtt, size)
              h == heap \o new
              q == short_flow_queue
                     \o [i \in 1..Len(new) |-> Len(heap) + i]
          IN  /\ Len(h) <= MaxFlows
              /\ heap' = h
              /\ short_flow_queue' = SortByStart(q, h)
    /\ calls' = calls + 1
    /\ UNCHANGED <<config, flows, metrics, fct_records, time_ms,
                   outage_active, outage_end_ms, switch, pc, steps_left, idx,
                   locals>>

\* step count one short of the quotient
StepCount_short(dur, dt) == dur \div dt - 1

\* step count rounded up
StepCount_ceil(dur, dt) == (dur + dt - 1) \div dt

\* steps = int(self.duration_ms / self.dt_ms)
StepCount(dur, dt) == dur \div dt

\* run(): steps is computed and the for loop starts
run ==
    /\ pc = "setup"
    /\ steps_left' = StepCount(duration_ms, dt_ms)
    /\ pc' = IF StepCount(duration_ms, dt_ms) > 0 THEN "admit" ELSE "done"
    /\ t' = time_ms
    /\ UNCHANGED <<config, flows, metrics, fct_records, short_flow_queue,
                   time_ms, outage_active, outage_end_ms, switch, heap, idx,
                   calls, in_outage, ecn_frac, loss_occurred, served,
                   queue_ms>>

\* _step, arrival admission: one iteration of the while loop
AdmitDue ==
    short_flow_queue # <<>> /\ heap[Head(short_flow_queue)].start_time_ms <= t

admit ==
    /\ pc = "admit"
    /\ AdmitDue
    /\ LET f == Head(short_flow_queue)
       IN  /\ short_flow_queue' = Tail(short_flow_queue)
           /\ heap' = [heap EXCEPT ![f].start_time_ms = t]
           /\ flows' = Append(flows, f)
    /\ UNCHANGED <<config, metrics, fct_records, time_ms, outage_active,
                   outage_end_ms, switch, pc, steps_left, idx, calls, locals>>

\* _check_outage(t) with the value u that rng.random() returns when drawn
\* outage check that samples a fresh onset inside a running window
OutageAfter_extend(u) ==
    IF outage_prob > 0 /\ u < outage_prob * dt_ms
    THEN [active |-> TRUE, end |-> t + outage_duration_ms]
    ELSE IF t < outage_end_ms
         THEN [active |-> TRUE, end |-> outage_end_ms]
         ELSE [active |-> FALSE, end |-> outage_end_ms]

OutageAfter(u) ==
    IF t < outage_end_ms THEN [active |-> TRUE, end |-> outage_end_ms]
    \* p = outage_prob * (dt_ms / 1000.0), in parts per million
    ELSE IF outage_prob > 0 /\ u < outage_prob * dt_ms
         THEN [active |-> TRUE, end |-> t + outage_duration_ms]
         ELSE [active |-> FALSE, end |-> outage_end_ms]

\* whether _check_outage(t) draws from the generator
OutageDraws == ~(t < outage_end_ms) /\ outage_prob > 0

\* _step after the admission loop: _check_outage and the reads before the
\* send loop
check_outage ==
    /\ pc = "admit"
    /\ ~AdmitDue
    /\ \E u \in (IF OutageDraws THEN RandomSet ELSE {0}) :
          /\ outage_active' = OutageAfter(u).active
          /\ outage_end_ms' = OutageAfter(u).end
          /\ in_outage' = OutageAfter(u).active
    /\ ecn_frac' = ecn_fraction(switch)
    /\ loss_occurred' = FALSE
    /\ idx' = 1
    /\ pc' = "send"
    /\ UNCHANGED <<config, flows, metrics, fct_records, short_flow_queue,
                   time_ms, switch, heap, steps_left, calls, t, served,
                   queue_ms>>

\* send loop body that tests completion before crediting the send
SendFlow_stale(f, ok) ==
    LET sent == f.sent_bytes + (IF ok THEN send_bytes(f, dt_ms) ELSE 0)
    IN  IF f.size_bytes # Inf /\ f.sent_bytes >= f.size_bytes
        THEN [f EXCEPT !.sent_bytes = sent, !.finished = TRUE,
                       !.finish_time_ms = t]
        ELSE [f EXCEPT !.sent_bytes = sent]

\* send loop body that credits the send whether or not it was admitted
SendFlow_always(f, ok) ==
    LET sent == f.sent_bytes + send_bytes(f, dt_ms)
    IN  IF f.size_bytes # Inf /\ sent >= f.size_bytes
        THEN [f EXCEPT !.sent_bytes = sent, !.finished = TRUE,
                       !.finish_time_ms = t]
        ELSE [f EXCEPT !.sent_bytes = sent]

\* the body of the send loop for one flow
SendFlow(f, ok) ==
    LET sent == f.sent_bytes + (IF ok THEN send_bytes(f, dt_ms) ELSE 0)
    IN  IF f.size_bytes # Inf /\ sent >= f.size_bytes
        THEN [f EXCEPT !.sent_bytes = sent, !.finished = TRUE,
                       !.finish_time_ms = t]
        ELSE [f EXCEPT !.sent_bytes = sent]

\* completion record that takes the finish time for the completion time
FctRecord_nostart(f) ==
    [fid |-> f.fid, cc |-> f.cc, size_bytes |-> f.size_bytes, fct_ms |-> t]

FctRecord(f) ==
    [fid |-> f.fid, cc |-> f.cc, size_bytes |-> f.size_bytes,
     fct_ms |-> t - f.start_time_ms]

\* loss flag that keeps only the outcome of the last send
LossAfter_last(prev, ok) == ~ok

\* if not ok: loss_occurred = True
LossAfter(prev, ok) == prev \/ ~ok

send ==
    /\ pc = "send"
    /\ idx <= Len(flows)
    /\ LET o == flows[idx]
           f == heap[o]
           ok == enqueue(switch, send_bytes(f, dt_ms)).ok
       IN  IF f.finished
           THEN UNCHANGED <<switch, loss_occurred, heap, fct_records>>
           ELSE /\ switch' = enqueue(switch, send_bytes(f, dt_ms)).switch
                /\ loss_occurred' = LossAfter(loss_occurred, ok)
                /\ heap' = [heap EXCEPT ![o] = SendFlow(f, ok)]
                /\ fct_records' =
                      IF SendFlow(f, ok).finished
                      THEN Append(fct_records, FctRecord(f))
                      ELSE fct_records
    /\ idx' = idx + 1
    /\ UNCHANGED <<config, flows, metrics, short_flow_queue, time_ms,
                   outage_active, outage_end_ms, pc, steps_left, calls, t,
                   in_outage, ecn_frac, served, queue_ms>>

\* feedback that ignores the outage
FeedbackRunsAlways(io) == TRUE

\* if not in_outage
FeedbackRuns(io) == ~io

\* served = self.switch.dequeue(self.dt_ms); queue_ms is read when the
\* feedback phase runs
drain ==
    /\ pc = "send"
    /\ idx > Len(flows)
    /\ served' = dequeue(switch, dt_ms).served
    /\ switch' = dequeue(switch, dt_ms).switch
    /\ IF FeedbackRuns(in_outage)
       THEN /\ queue_ms' = queue_delay_ms(dequeue(switch, dt_ms).switch)
            /\ pc' = "feedback"
       ELSE /\ queue_ms' = queue_ms
            /\ pc' = "record"
    /\ idx' = 1
    /\ UNCHANGED <<config, flows, metrics, fct_records, short_flow_queue,
                   time_ms, outage_active, outage_end_ms, heap, steps_left,
                   calls, t, in_outage, ecn_frac, loss_occurred>>

\* rtt_ms = flow.rtt_base_ms + queue_ms + max(jitter, -flow.rtt_base_ms * 0.9)
RttSample(f, jitter) ==
    f.rtt_base_ms + queue_ms + Max(jitter, -((f.rtt_base_ms * 9) \div 10))

\* the body of the feedback loop for one flow
feedback ==
    /\ pc = "feedback"
    /\ idx <= Len(flows)
    /\ LET o == flows[idx]
           f == heap[o]
       IN  IF f.finished
           THEN UNCHANGED heap
           ELSE \E jitter \in (IF rtt_jitter_std_ms > 0 THEN JitterSet
                               ELSE {0}) :
                   heap' = [heap EXCEPT ![o] =
                               on_ack(f, RttSample(f, jitter), queue_ms,
                                      ecn_frac, loss_occurred)]
    /\ idx' = idx + 1
    /\ UNCHANGED <<config, flows, metrics, fct_records, short_flow_queue,
                   time_ms, outage_active, outage_end_ms, switch, pc,
                   steps_left, calls, locals>>

Snapshot ==
    LET cap == LINK_RATE_BYTES_PER_MS * dt_ms
    IN  [time_ms |-> t, queue_bytes |-> switch.queue_bytes,
         queue_delay_ms |-> queue_delay_ms(switch),
         util |-> IF cap # 0 THEN (served * UtilScale) \div cap ELSE 0,
         served_bytes |-> served]

\* retirement that drops nothing
Unfinished_all(fl, h) == fl

Unfinished(fl, h) == SelectSeq(fl, LAMBDA o : ~h[o].finished)

\* end of _step: metrics, retirement, time advance; then the next iteration
\* of run()'s loop, or its return
record ==
    /\ \/ pc = "record"
       \/ pc = "feedback" /\ idx > Len(flows)
    /\ metrics' = Append(metrics, Snapshot)
    /\ flows' = Unfinished(flows, heap)
    /\ time_ms' = time_ms + dt_ms
    /\ t' = time_ms + dt_ms
    /\ steps_left' = steps_left - 1
    /\ pc' = IF steps_left - 1 > 0 THEN "admit" ELSE "done"
    /\ UNCHANGED <<config, fct_records, short_flow_queue, outage_active,
                   outage_end_ms, switch, heap, idx, calls, in_outage,
                   ecn_frac, loss_occurred, served, queue_ms>>

Next ==
    \/ AddFlow
    \/ schedule_short_flows
    \/ run
    \/ admit
    \/ check_outage
    \/ send
    \/ drain
    \/ feedback
    \/ record

Spec == Init /\ [][Next]_vars

\* run() executes its steps one after the other until it returns
FairSpec == Spec /\ WF_vars(Next)

(***************************************************************************)
(* Properties                                                              *)
(***************************************************************************)
Objects == 1..Len(heap)
Range(q) == {q[i] : i \in 1..Len(q)}

\* the send loop is about to run its body for flow object o
Sending(o) ==
    pc = "send" /\ idx <= Len(flows) /\ flows[idx] = o /\ ~heap[o].finished

\* C1: in every reachable state every flow's cwnd is at least 2 packets,
\* starting from the initial 10 packets,
\* whatever the mix of reno, dctcp and spacecc flows, the loss, ECN and RTT
\* feedback and the outages.
C1_CwndAtLeastTwo ==
    /\ \A o \in Objects : heap[o].cwnd >= MinCwndPkts * CwndScale
    \* a flow that has had no feedback yet is at the initial 10 packets
    /\ \A o \in Objects :
          (pc = "setup" \/ o \in Range(short_flow_queue))
              => heap[o].cwnd = InitCwndPkts * CwndScale

\* a flow was cut down to the floor, and another one grew beyond its start
C1_Witness ==
    /\ \E o \in Objects : heap[o].cwnd = MinCwndPkts * CwndScale
    /\ \E o \in Objects : heap[o].cwnd > InitCwndPkts * CwndScale

\* C2: the switch occupancy stays within 0 .. buffer_bytes after every
\* enqueue and dequeue of the stepping loop.
C2_QueueWithinBuffer ==
    0 <= switch.queue_bytes /\ switch.queue_bytes <= switch.buffer_bytes

\* in a send phase the buffer is exactly full and a later send was rejected
C2_Witness ==
    /\ pc = "send" /\ idx > 1
    /\ switch.queue_bytes = switch.buffer_bytes
    /\ loss_occurred

\* C3: enqueue is all-or-nothing.  A send that would exceed buffer_bytes
\* leaves the switch unchanged and is reported as rejected (the flow is not
\* credited and the loss flag is raised); a send that fits, also one that
\* fills the buffer exactly, raises queue_bytes by exactly its volume, leaves
\* total_served_bytes alone and is reported as admitted (the flow is
\* credited with the volume).
C3_Step ==
    \A o \in Objects :
        Sending(o) =>
            LET b == send_bytes(heap[o], dt_ms)
            IN  IF switch.queue_bytes + b > switch.buffer_bytes
                THEN /\ switch' = switch
                     /\ loss_occurred'
                     /\ heap'[o].sent_bytes = heap[o].sent_bytes
                ELSE /\ switch'.queue_bytes = switch.queue_bytes + b
                     /\ switch'.total_served_bytes =
                            switch.total_served_bytes
                     /\ loss_occurred' = loss_occurred
                     /\ heap'[o].sent_bytes = heap[o].sent_bytes + b

C3_EnqueueAllOrNothing == [][C3_Step]_vars

\* a send filled the buffer to the last byte and the send after it was
\* rejected
C3_Witness ==
    /\ pc = "send" /\ idx > 2
    /\ switch.queue_bytes = switch.buffer_bytes
    /\ loss_occurred
    /\ heap[flows[idx - 1]].sent_bytes = 0
    /\ heap[flows[idx - 2]].sent_bytes > 0

\* C4: in a step in which the link is in outage no flow's cwnd, alpha or
\* rtt_smooth changes, while the send phase still credits admitted sends
\* and the drain phase still dequeues.
InStep == pc \in {"send", "feedback", "record"}

C4_Step ==
    (InStep /\ in_outage) =>
        /\ in_outage = outage_active
        /\ pc # "feedback" /\ pc' # "feedback"
        /\ \A o \in Objects :
              /\ heap'[o].cwnd = heap[o].cwnd
              /\ heap'[o].alpha = heap[o].alpha
              /\ heap'[o].rtt_smooth = heap[o].rtt_smooth
        /\ \A o \in Objects :
              (Sending(o) /\ switch.queue_bytes + send_bytes(heap[o], dt_ms)
                                <= switch.buffer_bytes)
                  => heap'[o].sent_bytes =
                         heap[o].sent_bytes + send_bytes(heap[o], dt_ms)
        /\ (pc = "send" /\ idx > Len(flows)) =>
              /\ served' = Min(switch.queue_bytes,
                                LINK_RATE_BYTES_PER_MS * dt_ms)
              /\ switch'.queue_bytes = switch.queue_bytes - served'

C4_OutageFreezesFlows == [][C4_Step]_vars

\* the first step ran in outage: flows were credited, the switch served
\* bytes, and no window moved
C4_Witness ==
    /\ pc = "record" /\ in_outage /\ t = 0
    /\ served > 0
    /\ \E o \in Range(flows) :
          heap[o].sent_bytes > 0 /\ heap[o].cwnd = InitCwndPkts * CwndScale

\* flow object o has been in the active set
EverActive(o) == o \notin Range(short_flow_queue)
Finite(o) == heap[o].size_bytes # Inf

\* the least volume flow o sends in a step: its volume at cwnd = 2
MinSend(o) ==
    send_bytes([heap[o] EXCEPT !.cwnd = MinCwndPkts * CwndScale], dt_ms)

\* the send phases flow o has been through when the run returns
StepsActive(o) == (time_ms - heap[o].start_time_ms) \div dt_ms

\* C5 as claimed: every finite flow that entered the active set is
\* eventually finished, given a positive lower bound on its send volume per
\* step.  Read at the return of run(), and only for the flows that had
\* enough steps for that lower bound to add up to their size.
C5_Orig ==
    pc = "done" =>
        \A o \in Objects :
            (EverActive(o) /\ Finite(o)
                /\ StepsActive(o) * MinSend(o) >= heap[o].size_bytes)
                => heap[o].finished

\* C5 (amended): a finite flow that entered the active set is finished
\* exactly when the volume admitted for it has reached its size.  Every
\* admitted send adds at least the flow's least send volume, a rejected send
\* adds nothing and finishes nothing.
C5_Inv ==
    \A o \in Objects :
        (EverActive(o) /\ Finite(o)) =>
            (heap[o].finished <=> heap[o].sent_bytes >= heap[o].size_bytes)

C5_Step ==
    \A o \in Objects :
        Sending(o) =>
            IF switch.queue_bytes + send_bytes(heap[o], dt_ms)
                   <= switch.buffer_bytes
            THEN /\ MinSend(o) > 0
                 /\ heap'[o].sent_bytes >= heap[o].sent_bytes + MinSend(o)
            ELSE /\ heap'[o].sent_bytes = heap[o].sent_bytes
                 /\ ~heap'[o].finished

C5_FinishedWhenAdmittedVolumeReachesSize == []C5_Inv /\ [][C5_Step]_vars

\* at the return of run() one finite flow has finished and another one, in
\* the active set for two steps, had every send rejected
C5_Witness ==
    /\ pc = "done"
    /\ \E o \in Objects : heap[o].finished
    /\ \E o \in Objects :
          /\ EverActive(o) /\ Finite(o) /\ ~heap[o].finished
          /\ heap[o].sent_bytes = 0
          /\ StepsActive(o) >= 2

\* C6: a flow that finishes contributes exactly one FCTRecord, appended in
\* the step it finished, with fct_ms = finish_time_ms - start_time_ms >= 0;
\* finish_time_ms is set once; a flow of infinite size never finishes and
\* has no record.
FinishedObjs == {o \in Objects : heap[o].finished}

C6_Inv ==
    /\ Len(fct_records) = Cardinality(FinishedObjs)
    /\ \A o \in Objects :
          IF heap[o].finished
          THEN /\ heap[o].size_bytes # Inf
               /\ heap[o].finish_time_ms # None
               /\ heap[o].finish_time_ms - heap[o].start_time_ms >= 0
               /\ \E k \in 1..Len(fct_records) :
                     fct_records[k] =
                         [fid |-> heap[o].fid, cc |-> heap[o].cc,
                          size_bytes |-> heap[o].size_bytes,
                          fct_ms |-> heap[o].finish_time_ms
                                       - heap[o].start_time_ms]
          ELSE heap[o].finish_time_ms = None

C6_Step ==
    /\ \A k \in 1..Len(fct_records) :
          k <= Len(fct_records') /\ fct_records'[k] = fct_records[k]
    /\ \A o \in Objects :
          IF heap[o].finished
          THEN /\ heap'[o].finished
               /\ heap'[o].finish_time_ms = heap[o].finish_time_ms
               /\ heap'[o].start_time_ms = heap[o].start_time_ms
          ELSE heap'[o].finished =>
                  /\ Sending(o)
                  /\ heap'[o].finish_time_ms = t
                  /\ fct_records' =
                        Append(fct_records,
                               [fid |-> heap[o].fid, cc |-> heap[o].cc,
                                size_bytes |-> heap[o].size_bytes,
                                fct_ms |-> t - heap[o].start_time_ms])

C6_OneRecordPerFinishedFlow == []C6_Inv /\ [][C6_Step]_vars

\* the run returned two records, one of a flow that needed more than one
\* step, next to a long-lived flow
C6_Witness ==
    /\ pc = "done"
    /\ Len(fct_records) >= 2
    /\ \E k \in 1..Len(fct_records) : fct_records[k].fct_ms > 0
    /\ \E o \in Objects : heap[o].size_bytes = Inf /\ heap[o].sent_bytes > 0

\* C8: one call of schedule_short_flows generates strictly increasing
\* arrival times; pending flows enter the active set in non-decreasing order
\* of arrival time; a flow in the active set has start_time_ms no later than
\* the time of the step.
C8_Step ==
    /\ (calls' = calls + 1) =>
          \A i, j \in (Len(heap) + 1)..Len(heap') :
              i < j => heap'[i].start_time_ms < heap'[j].start_time_ms
    /\ (pc = "admit" /\ short_flow_queue' # short_flow_queue) =>
          LET f == Head(short_flow_queue)
          IN  /\ flows' = Append(flows, f)
              /\ heap[f].start_time_ms <= t
              /\ \A g \in Range(short_flow_queue') :
                    heap[f].start_time_ms <= heap[g].start_time_ms

C8_Inv ==
    \A o \in Range(flows) :
        heap[o].start_time_ms # None /\ heap[o].start_time_ms <= t

C8_ArrivalOrder == []C8_Inv /\ [][C8_Step]_vars

\* two short flows of different calls are active, the one constructed later
\* admitted first
C8_Witness ==
    /\ calls = 2
    /\ \E i, j \in 1..Len(flows) :
          /\ i < j /\ flows[i] > flows[j]
          /\ heap[flows[j]].fid >= FirstShortFid
          /\ heap[flows[i]].start_time_ms < heap[flows[j]].start_time_ms

\* C9: run() returns after exactly floor(duration_ms / dt_ms) steps, with one
\* snapshot per step, the k-th (from 0) stamped k * dt_ms.
C9_Inv ==
    /\ \A k \in 1..Len(metrics) : metrics[k].time_ms = (k - 1) * dt_ms
    /\ pc = "done" =>
          /\ Len(metrics) * dt_ms <= duration_ms
          /\ duration_ms < (Len(metrics) + 1) * dt_ms
    /\ pc \in {"admit", "send", "feedback", "record"} =>
          (Len(metrics) + 1) * dt_ms <= duration_ms

C9_RunTerminates == []C9_Inv /\ <>(pc = "done")

\* run() has returned from a duration that is no multiple of dt_ms
C9_Witness ==
    /\ pc = "done"
    /\ duration_ms % dt_ms # 0
    /\ Len(metrics) = MaxSteps

\* the marking fraction of the occupancy the previous step left behind
EcnAtStepStart ==
    IF metrics = <<>> THEN 0
    ELSE IF metrics[Len(metrics)].queue_bytes > switch.ecn_thresh_bytes
         THEN 1 ELSE 0

C10_Inv ==
    pc = "feedback" =>
        /\ queue_ms = switch.queue_bytes \div LINK_RATE_BYTES_PER_MS
        /\ ecn_frac = EcnAtStepStart

C10_Step ==
    (pc = "feedback" /\ pc' = "feedback") =>
        /\ queue_ms' = queue_ms /\ ecn_frac' = ecn_frac
        /\ switch' = switch

Acking(o) ==
    pc = "feedback" /\ idx <= Len(flows) /\ flows[idx] = o
        /\ ~heap[o].finished

\* C11: the loss indicator is one flag per step.  It is cleared before the
\* send loop, raised by every rejected enqueue and lowered by none, and left
\* alone by the drain and the feedback; in the feedback phase a reno flow is
\* cut whenever the flag is up, whether or not its own send was admitted.
C11_Step ==
    /\ (pc = "admit" /\ pc' = "send") => ~loss_occurred'
    /\ \A o \in Objects :
          Sending(o) =>
              (loss_occurred' <=>
                  (loss_occurred
                     \/ switch.queue_bytes + send_bytes(heap[o], dt_ms)
                           > switch.buffer_bytes))
    /\ (pc = "send" /\ idx > Len(flows)) => loss_occurred' = loss_occurred
    /\ pc = "feedback" => loss_occurred' = loss_occurred
    /\ \A o \in Objects :
          (Acking(o) /\ heap[o].cc = "reno") =>
              IF loss_occurred \/ ecn_frac > 0
              THEN heap'[o].cwnd =
                       Max(heap[o].cwnd \div 2, MinCwndPkts * CwndScale)
              ELSE heap'[o].cwnd > heap[o].cwnd

C11_OneLossFlagPerStep == [][C11_Step]_vars

\* in the first step, without marking, a reno flow whose own send was
\* admitted before another flow's send was rejected has been cut
C11_Witness ==
    /\ pc = "feedback" /\ t = 0 /\ idx > 1
    /\ loss_occurred /\ ecn_frac = 0
    /\ LET o == flows[idx - 1]
       IN  /\ heap[o].cc = "reno"
           /\ heap[o].sent_bytes > 0
           /\ heap[o].cwnd < InitCwndPkts * CwndScale
    /\ heap[flows[Len(flows)]].sent_bytes = 0

\* C12: a finished flow is never updated again: it gets no on_ack in the
\* step it finished, it is dropped from the active set at the end of that
\* step, and between steps the active set holds no finished flow.
C12_Step ==
    \A o \in Objects : heap[o].finished => heap'[o] = heap[o]

C12_Inv ==
    /\ pc \in {"setup", "admit", "done"} =>
          \A o \in Range(flows) : ~heap[o].finished
    /\ \A o \in Range(flows) :
          heap[o].finished => (InStep /\ heap[o].finish_time_ms = t)

C12_FinishedFlowsFrozen == []C12_Inv /\ [][C12_Step]_vars

\* the feedback loop has just passed over a flow that finished in this step
\* and goes on to update another flow
C12_Witness ==
    /\ pc = "feedback" /\ idx > 1 /\ idx <= Len(flows)
    /\ heap[flows[idx - 1]].finished
    /\ heap[flows[idx - 1]].finish_time_ms = t
    /\ ~heap[flows[idx]].finished

\* the volume a flow offers in one step at its present window
Volume(o) ==
    (((heap[o].cwnd * PKT_BYTES) \div Max(heap[o].rtt_base_ms, 10)) * dt_ms)
        \div CwndScale

\* C13: sent_bytes of a flow changes only in the send loop and only when the
\* switch admitted the flow's enqueue; it then grows by exactly the volume
\* offered at the window the flow had when the step began, and the window is
\* not touched by the send.  A rejected send leaves sent_bytes alone, so
\* sent_bytes never decreases.
C13_Step ==
    \A o \in Objects :
        /\ heap'[o].sent_bytes =
              IF Sending(o)
                   /\ switch.queue_bytes + Volume(o) <= switch.buffer_bytes
              THEN heap[o].sent_bytes + Volume(o)
              ELSE heap[o].sent_bytes
        /\ heap'[o].sent_bytes >= heap[o].sent_bytes
        /\ pc = "send" => heap'[o].cwnd = heap[o].cwnd

C13_SentBytesFrame == [][C13_Step]_vars

\* after the send loop of the second step one flow has been credited the
\* volume of both steps, the second at a changed window, while another
\* flow's second send was rejected and left it at the first step's volume
C13_Witness ==
    /\ pc = "feedback" /\ idx = 1 /\ t = dt_ms /\ loss_occurred
    /\ \E o \in Range(flows) :
          /\ heap[o].start_time_ms = 0
          /\ heap[o].cwnd # InitCwndPkts * CwndScale
          /\ heap[o].sent_bytes =
                send_bytes(NewFlow(0, heap[o].cc, heap[o].rtt_base_ms, Inf),
                           dt_ms) + Volume(o)
    /\ \E o \in Range(flows) :
          /\ heap[o].start_time_ms = 0
          /\ heap[o].sent_bytes =
                send_bytes(NewFlow(0, heap[o].cc, heap[o].rtt_base_ms, Inf),
                           dt_ms)

\* bytes the link can serve in one step
Capacity == LINK_RATE_BYTES_PER_MS * dt_ms

\* C14: the drain serves min(occupancy before the drain, link capacity of
\* one step) and leaves the rest queued; every snapshot records that served
\* volume and the occupancy after the drain, so served_bytes lies between 0
\* and the capacity, util between 0 and 1, and bytes stay queued after the
\* drain only when the link served a full step.
C14_Step ==
    /\ (pc = "send" /\ idx > Len(flows)) =>
          /\ served' = Min(switch.queue_bytes, Capacity)
          /\ switch'.queue_bytes = switch.queue_bytes - served'
    /\ pc = "record" =>
          /\ Len(metrics') = Len(metrics) + 1
          /\ metrics'[Len(metrics')].served_bytes = served
          /\ metrics'[Len(metrics')].queue_bytes = switch.queue_bytes

C14_Inv ==
    \A k \in 1..Len(metrics) :
        /\ 0 <= metrics[k].served_bytes
        /\ metrics[k].served_bytes <= Capacity
        /\ metrics[k].util = (metrics[k].served_bytes * UtilScale) \div Capacity
        /\ 0 <= metrics[k].util /\ metrics[k].util <= UtilScale
        /\ metrics[k].queue_bytes >= 0
        /\ metrics[k].queue_bytes > 0 => metrics[k].served_bytes = Capacity

CheckingOutage == pc = "admit" /\ pc' = "send"

\* C15: an outage sampled at step time t0 lasts through every step with
\* t0 <= t < t0 + outage_duration_ms.  Inside the window the check keeps the
\* link in outage and does not move the end of the window; at a step at or
\* after the end the link is in outage only if a fresh onset is sampled
\* there, which opens a window of outage_duration_ms from that step; and
\* with outage_prob = 0 the link is never in outage.
C15_Step ==
    CheckingOutage =>
        /\ t < outage_end_ms =>
              outage_active' /\ outage_end_ms' = outage_end_ms
        /\ (t >= outage_end_ms /\ outage_active') =>
              /\ outage_prob > 0
              /\ outage_end_ms' = t + outage_duration_ms
        /\ (t >= outage_end_ms /\ ~outage_active') =>
              outage_end_ms' = outage_end_ms
        /\ in_outage' = outage_active'

C15_Inv ==
    /\ outage_prob = 0 => (~outage_active /\ ~in_outage)
    /\ (InStep /\ outage_duration_ms > 0) =>
          (outage_active <=> t < outage_end_ms)
    /\ outage_active =>
          /\ outage_end_ms - outage_duration_ms >= 0
          /\ outage_end_ms - outage_duration_ms <= t

Admitting(o) ==
    pc = "admit" /\ AdmitDue /\ Head(short_flow_queue) = o

\* C16: once the admission loop of the step at time t has ended, no pending
\* flow has an arrival time <= t, however many calls of schedule_short_flows
\* filled the queue; a short flow is admitted at the first step whose time
\* is at or after its arrival, and its start_time_ms becomes that step time.
C16_Inv ==
    InStep => \A o \in Range(short_flow_queue) : heap[o].start_time_ms > t

C16_Step ==
    \A o \in Objects :
        Admitting(o) =>
            /\ heap[o].start_time_ms <= t
            /\ t > 0 => heap[o].start_time_ms > t - dt_ms
            /\ heap'[o].start_time_ms = t
            /\ flows' = Append(flows, o)
            /\ o \notin Range(short_flow_queue')

C16_AdmissionComplete == []C16_Inv /\ [][C16_Step]_vars

\* after two calls of schedule_short_flows a step has admitted flows of
\* both calls, in front of a flow of the first call that arrives later
C16_Witness ==
    /\ pc = "send" /\ calls = 2 /\ t > 0
    /\ short_flow_queue # <<>>
    /\ \E i, j \in 1..Len(flows) :
          /\ i < j
          /\ flows[i] < Head(short_flow_queue)
          /\ flows[j] > Head(short_flow_queue)
          /\ heap[flows[i]].start_time_ms = t
          /\ heap[flows[j]].start_time_ms = t

\* sum of sent_bytes over the first n flow objects
RECURSIVE SentUpTo(_)
SentUpTo(n) == IF n = 0 THEN 0 ELSE heap[n].sent_bytes + SentUpTo(n - 1)

\* C17: bytes are conserved: the sent_bytes of all flows that were ever
\* constructed, retired ones included, add up to the bytes queued in the
\* switch plus the bytes the switch has served.
C17_ByteConservation ==
    SentUpTo(Len(heap)) = switch.queue_bytes + switch.total_served_bytes

\* at the end of a run in which a send was rejected and a flow retired,
\* bytes are both queued and served
C17_Witness ==
    /\ pc = "done"
    /\ switch.queue_bytes > 0 /\ switch.total_served_bytes > 0
    /\ \E o \in Objects : heap[o].finished /\ heap[o].sent_bytes > 0
    /\ \E o \in Range(flows) :
          heap[o].sent_bytes > 0
              /\ heap[o].cwnd < InitCwndPkts * CwndScale

\* the time of the last step of run()
LastStepTime == (duration_ms \div dt_ms - 1) * dt_ms

\* flow object o was constructed by schedule_short_flows
Short(o) == heap[o].fid >= FirstShortFid

\* C18 as stated: every short flow that schedule_short_flows generated is
\* admitted during run(), so that the pending queue is empty when run()
\* returns.
C18_Orig == pc = "done" => short_flow_queue = <<>>

\* C18, amended: when run() returns, the pending queue holds exactly the
\* generated short flows that arrive after the time of the last step (and
\* before duration_ms); every short flow that arrives at or before the last
\* step's time has been admitted, with a step time as its start time.
C18_Inv ==
    pc = "done" =>
        /\ \A o \in Range(short_flow_queue) :
              /\ heap[o].start_time_ms > LastStepTime
              /\ heap[o].start_time_ms < duration_ms
        /\ \A o \in Objects :
              (Short(o) /\ o \notin Range(short_flow_queue)) =>
                  /\ heap[o].start_time_ms <= LastStepTime
                  /\ heap[o].start_time_ms % dt_ms = 0
                  /\ heap[o].sent_bytes > 0 \/ o \in Range(flows)

C18_PendingAtReturn == []C18_Inv

\* run() has returned with one short flow admitted and another one, which
\* arrives after the last step, still pending
C18_Witness ==
    /\ pc = "done"
    /\ short_flow_queue # <<>>
    /\ \E o \in Objects : Short(o) /\ o \notin Range(short_flow_queue)

\* C19: all flows of one simulator have pairwise distinct fids, the short
\* flows of every call of schedule_short_flows included, so that no two
\* completion records of a run share a fid.
C19_UniqueFids ==
    /\ \A o1, o2 \in Objects : o1 # o2 => heap[o1].fid # heap[o2].fid
    /\ \A j, k \in 1..Len(fct_records) :
          j # k => fct_records[j].fid # fct_records[k].fid

====
